---------------------------- MODULE Spec2Model ----------------------------
(***************************************************************************)
(* A model of ha_outliers.py: the scan/group pipeline, the paginated       *)
(* review loop of main()/display_outliers(), and the edit/delete           *)
(* mutations against the states table.                                     *)
(*                                                                         *)
(* Numbers.  Python floats are modelled as fixed-point integers counting   *)
(* tenths (423 is 42.3).  Text (operator input, the VARCHAR column         *)
(* states.state) is a tuple of one-character strings.                      *)
(*                                                                         *)
(* Store.  db is the committed content of the states table; txn is what    *)
(* the session's connection sees (db plus the statements of the open       *)
(* transaction).  mysql.connector connects with autocommit off, so a       *)
(* statement changes txn only and conn.commit() publishes txn to db; the   *)
(* server discards an open transaction when the connection goes away.      *)
(***************************************************************************)
EXTENDS Integers, Sequences, FiniteSets, TLC

\* ------------------------------------------------------------- constants

\* PAGE_SIZE of the source is 25; the model keeps the constant and scales
\* its value so that a handful of groups spans several pages.
PAGE_SIZE == 2
MIN_SAMPLES == 200
\* SIGMA_THRESHOLD = 5.0 standard deviations
SIGMA_THRESHOLD == 5
\* FREQUENCY_THRESHOLD = 0.01, as a percentage
FREQUENCY_THRESHOLD_PCT == 1

\* SQL NULL in the integer column old_state_id (state ids start at 1)
NULL == 0
\* The outcome of a conversion that raised ValueError
ValueError == [ok |-> FALSE, val |-> 0]
Parsed(n) == [ok |-> TRUE, val |-> n]

\* ------------------------------------------------------------------ text

Digits == {"0", "1", "2", "3", "4", "5", "6", "7", "8", "9"}

DigitVal(c) ==
    CASE c = "0" -> 0 [] c = "1" -> 1 [] c = "2" -> 2 [] c = "3" -> 3
      [] c = "4" -> 4 [] c = "5" -> 5 [] c = "6" -> 6 [] c = "7" -> 7
      [] c = "8" -> 8 [] c = "9" -> 9

DigitChar(d) ==
    CASE d = 0 -> "0" [] d = 1 -> "1" [] d = 2 -> "2" [] d = 3 -> "3"
      [] d = 4 -> "4" [] d = 5 -> "5" [] d = 6 -> "6" [] d = 7 -> "7"
      [] d = 8 -> "8" [] d = 9 -> "9"

\* str.lower() on one character
LowerChar(c) ==
    CASE c = "E" -> "e" [] c = "D" -> "d" [] c = "N" -> "n" [] c = "P" -> "p"
      [] c = "Q" -> "q" [] c = "C" -> "c" [] c = "M" -> "m" [] OTHER -> c

Lower(s) == [i \in 1..Len(s) |-> LowerChar(s[i])]

RECURSIVE LStrip(_)
LStrip(s) == IF s # <<>> /\ Head(s) = " " THEN LStrip(Tail(s)) ELSE s

RECURSIVE RStrip(_)
RStrip(s) ==
    IF s # <<>> /\ s[Len(s)] = " " THEN RStrip(SubSeq(s, 1, Len(s) - 1)) ELSE s

\* str.strip()
Strip(s) == RStrip(LStrip(s))

AllDigits(s) == s # <<>> /\ \A i \in 1..Len(s) : s[i] \in Digits

RECURSIVE DigitsValue(_)
DigitsValue(s) ==
    IF s = <<>> THEN 0
    ELSE 10 * DigitsValue(SubSeq(s, 1, Len(s) - 1)) + DigitVal(s[Len(s)])

RECURSIVE NatText(_)
NatText(n) ==
    IF n < 10 THEN <<DigitChar(n)>> ELSE NatText(n \div 10) \o <<DigitChar(n % 10)>>

\* int(text): surrounding blanks are ignored, one optional sign, then at
\* least one decimal digit; anything else raises ValueError.
ParseInt(text) ==
    LET s == Strip(text)
        signed == s # <<>> /\ Head(s) \in {"+", "-"}
        body == IF signed THEN Tail(s) ELSE s
    IN  IF ~AllDigits(body) THEN ValueError
        ELSE IF signed /\ Head(s) = "-" THEN Parsed(0 - DigitsValue(body))
        ELSE Parsed(DigitsValue(body))

\* The position of the first "." of s, 0 when there is none.
DotPos(s) ==
    IF \E i \in 1..Len(s) : s[i] = "."
    THEN CHOOSE i \in 1..Len(s) : s[i] = "." /\ \A j \in 1..(i - 1) : s[j] # "."
    ELSE 0

\* float(text) for decimal literals, in tenths: an optional sign, digits
\* with an optional fraction (digits on at least one side of the point).
\* The model's inputs carry at most one fractional digit.
ParseFloat(text) ==
    LET s == Strip(text)
        signed == s # <<>> /\ Head(s) \in {"+", "-"}
        body == IF signed THEN Tail(s) ELSE s
        dot == DotPos(body)
        ip == IF dot = 0 THEN body ELSE SubSeq(body, 1, dot - 1)
        fp == IF dot = 0 THEN <<>> ELSE SubSeq(body, dot + 1, Len(body))
        wellFormed ==
            /\ ip \o fp # <<>>
            /\ \A i \in 1..Len(ip) : ip[i] \in Digits
            /\ \A i \in 1..Len(fp) : fp[i] \in Digits
        mag == 10 * DigitsValue(ip) + (IF fp = <<>> THEN 0 ELSE DigitVal(fp[1]))
    IN  IF ~wellFormed THEN ValueError
        ELSE IF signed /\ Head(s) = "-" THEN Parsed(0 - mag)
        ELSE Parsed(mag)

\* str(x) of a float x given in tenths: always with a fractional part,
\* so str(float("43")) is "43.0".
PyStr(x) ==
    LET mag == IF x < 0 THEN 0 - x ELSE x
    IN  (IF x < 0 THEN <<"-">> ELSE <<>>)
        \o NatText(mag \div 10) \o <<".">> \o <<DigitChar(mag % 10)>>

Abs(x) == IF x < 0 THEN 0 - x ELSE x
Min(a, b) == IF a <= b THEN a ELSE b
Max(a, b) == IF a >= b THEN a ELSE b


\* ------------------------------------------------------ the stored data

\* states_meta
StatesMeta ==
    << [metadata_id |-> 1, entity_id |-> "sensor.a"],
       [metadata_id |-> 2, entity_id |-> "sensor.b"],
       [metadata_id |-> 3, entity_id |-> "sensor.c"] >>

\* The answer of the statistics query (COUNT, AVG, STDDEV over the valid
\* samples of one source).  The bulk of a source's samples lies inside the
\* bounds, is never selected by the scan nor touched by a mutation, and is
\* represented by these aggregates only.
SourceStats(meta) ==
    CASE meta = 1 -> [cnt |-> 300, mean_val |-> 200, std_val |-> 10]
      [] meta = 2 -> [cnt |-> 250, mean_val |-> 50, std_val |-> 5]
      [] meta = 3 -> [cnt |-> 150, mean_val |-> 70, std_val |-> 2]

StateIds == 1..7

Row(meta, text, old, ts) ==
    [metadata_id |-> meta, state |-> text, old_state_id |-> old,
     last_updated_ts |-> ts]

\* The rows of the states table that the model follows one by one.  The
\* old_state_id chain links each state to the previous state of its source.
InitialStates ==
    [id \in StateIds |->
        CASE id = 1 -> Row(1, <<"4", "2", ".", "3">>, NULL, 10)
          [] id = 2 -> Row(1, <<"4", "3", ".", "0">>, 1, 20)
          [] id = 3 -> Row(1, <<"1", "2", ".", "8">>, 5, 40)
          [] id = 4 -> Row(2, <<"1", "2", ".", "0">>, NULL, 15)
          [] id = 5 -> Row(1, <<"2", "0", ".", "0">>, 2, 30)
          [] id = 6 -> Row(2, <<"5", ".", "0">>, 4, 25)
          [] id = 7 -> Row(3, <<"9", "9", ".", "0">>, NULL, 35)]

\* A store is a function from the ids of the rows it holds to the rows.
Present(store) == DOMAIN store

\* CAST(state AS DECIMAL(30,10)) read back as a float
NumericValue(row) == ParseFloat(row.state).val

\* ----------------------------------------------------------------- scan

\* Neither query of the scan has an ORDER BY: the engine decides the order
\* of their rows.
VARIABLES
    row_order,      \* the ids of states in the order the engine reads them
    cand_order      \* the candidates (indices of StatesMeta) likewise

RECURSIVE AscendingSeq(_)
AscendingSeq(S) ==
    IF S = {} THEN <<>>
    ELSE LET m == CHOOSE x \in S : \A y \in S : x <= y
         IN  <<m>> \o AscendingSeq(S \ {m})

\* The rows of one source outside [lower, upper], as the store returns them:
\* the query has no ORDER BY, so they come in the order the engine reads
\* them in (row_order).
OutlierRows(store, meta, lower, upper) ==
    LET hit == {id \in Present(store) :
                    /\ store[id].metadata_id = meta
                    /\ \/ NumericValue(store[id]) < lower
                       \/ NumericValue(store[id]) > upper}
        InHit(id) == id \in hit
        order == SelectSeq(row_order, InHit)
    IN  [i \in 1..Len(order) |->
            [state_id |-> order[i],
             numeric_value |-> NumericValue(store[order[i]]),
             last_updated_ts |-> store[order[i]].last_updated_ts]]

RECURSIVE SigScale(_, _)
SigScale(mag, p) == IF mag < 1000000 * p THEN p ELSE SigScale(mag, 10 * p)

\* f"{value:.6g}": the value rounded to six significant digits.
Quantize6g(v) ==
    LET p == SigScale(Abs(v), 1)
        q == ((Abs(v) + (p \div 2)) \div p) * p
    IN  IF v < 0 THEN 0 - q ELSE q

\* Mutant: the occurrences are counted by exact value.
OccurrenceCount_Exact(rows, v) ==
    Cardinality({i \in 1..Len(rows) : rows[i].numeric_value = v})

OccurrenceCount(rows, v) ==
    Cardinality({i \in 1..Len(rows) :
                    Quantize6g(rows[i].numeric_value) = Quantize6g(v)})

\* abs(value - mean) / std, in tenths
Deviation(value, mean_val, std_val) == (Abs(value - mean_val) * 10) \div std_val

RECURSIVE KeptRows(_, _, _, _)
KeptRows(rows, i, cand, stats) ==
    IF i > Len(rows) THEN <<>>
    ELSE LET row == rows[i]
             value == row.numeric_value
             rest == KeptRows(rows, i + 1, cand, stats)
         IN  IF OccurrenceCount(rows, value) * 100 > stats.cnt * FREQUENCY_THRESHOLD_PCT
             THEN rest
             ELSE << [id |-> row.state_id,
                      metadata_id |-> cand.metadata_id,
                      entity_id |-> cand.entity_id,
                      value |-> value,
                      lower_bound |-> stats.mean_val - SIGMA_THRESHOLD * stats.std_val,
                      upper_bound |-> stats.mean_val + SIGMA_THRESHOLD * stats.std_val,
                      mean |-> stats.mean_val,
                      deviation |-> Deviation(value, stats.mean_val, stats.std_val),
                      timestamp |-> row.last_updated_ts,
                      total_samples |-> stats.cnt] >> \o rest

\* One iteration of the loop over the candidates.
SourceOutliers(store, cand) ==
    LET stats == SourceStats(cand.metadata_id)
        lower == stats.mean_val - SIGMA_THRESHOLD * stats.std_val
        upper == stats.mean_val + SIGMA_THRESHOLD * stats.std_val
    IN  IF stats.cnt < MIN_SAMPLES \/ stats.std_val = 0 THEN <<>>
        ELSE KeptRows(OutlierRows(store, cand.metadata_id, lower, upper), 1, cand, stats)

\* sorted(seq, key=deviation, reverse=True): stable, so equal deviations
\* keep the order they came in.
RECURSIVE InsertDesc(_, _)
InsertDesc(sorted, x) ==
    IF sorted = <<>> THEN <<x>>
    ELSE IF Head(sorted).deviation >= x.deviation
         THEN <<Head(sorted)>> \o InsertDesc(Tail(sorted), x)
         ELSE <<x>> \o sorted

RECURSIVE SortedByDeviation(_)
SortedByDeviation(seq) ==
    IF seq = <<>> THEN <<>>
    ELSE InsertDesc(SortedByDeviation(SubSeq(seq, 1, Len(seq) - 1)), seq[Len(seq)])

\* The candidate query has no ORDER BY either: cand_order is the order its
\* rows come in.
Candidates == [i \in 1..Len(cand_order) |-> StatesMeta[cand_order[i]]]

RECURSIVE AllSourceOutliers(_, _)
AllSourceOutliers(store, i) ==
    IF i > Len(Candidates) THEN <<>>
    ELSE SourceOutliers(store, Candidates[i]) \o AllSourceOutliers(store, i + 1)

find_outliers_in_states(store) == SortedByDeviation(AllSourceOutliers(store, 1))

\* ------------------------------------------------------------- grouping

\* Mutant: the widths of the two upper ranges are exchanged.
BandSize_Swapped(dev) == IF dev < 100 THEN 1 ELSE (IF dev < 200 THEN 5 ELSE 2)

BandSize(dev) == IF dev < 100 THEN 1 ELSE (IF dev < 200 THEN 2 ELSE 5)

\* int(dev // band_size) * band_size, dev in tenths
Band(dev) == (dev \div (10 * BandSize(dev))) * BandSize(dev)

Direction(o) == IF o.value > o.mean THEN "above" ELSE "below"

GroupKey(o) == <<o.entity_id, Band(o.deviation), Direction(o)>>

\* A group that has not been reviewed carries no "_removed" entry, which
\* reads as false; the model gives every group the field from the start.
NewGroup(o) ==
    [id |-> o.id, metadata_id |-> o.metadata_id, entity_id |-> o.entity_id,
     value |-> o.value, lower_bound |-> o.lower_bound,
     upper_bound |-> o.upper_bound, mean |-> o.mean, deviation |-> o.deviation,
     timestamp |-> o.timestamp, total_samples |-> o.total_samples,
     count |-> 1, ids |-> <<o.id>>, timestamps |-> <<o.timestamp>>,
     values |-> <<o.value>>, min_value |-> o.value, max_value |-> o.value,
     removed |-> FALSE]

\* Mutant: the member merged last becomes the group's representative.
MergeInto_LastWins(g, o) ==
    [g EXCEPT !.count = @ + 1,
              !.ids = Append(@, o.id),
              !.timestamps = Append(@, o.timestamp),
              !.values = Append(@, o.value),
              !.min_value = Min(@, o.value),
              !.max_value = Max(@, o.value),
              !.id = o.id,
              !.value = o.value,
              !.deviation = o.deviation,
              !.timestamp = o.timestamp]

\* Mutant: a merge appends the member and leaves the range as it was.
MergeInto_StaleRange(g, o) ==
    [g EXCEPT !.count = @ + 1,
              !.ids = Append(@, o.id),
              !.timestamps = Append(@, o.timestamp),
              !.values = Append(@, o.value)]

MergeInto(g, o) ==
    [g EXCEPT !.count = @ + 1,
              !.ids = Append(@, o.id),
              !.timestamps = Append(@, o.timestamp),
              !.values = Append(@, o.value),
              !.min_value = Min(@, o.value),
              !.max_value = Max(@, o.value)]

\* Mutant: every record opens a group of its own, whatever its key.
GroupRecord_AlwaysNew(acc, o) ==
    Append(acc, [key |-> GroupKey(o), g |-> NewGroup(o)])

\* One iteration of the loop over the records: acc is the dict "groups" as
\* its entries in insertion order.
GroupRecord(acc, o) ==
    LET key == GroupKey(o)
    IN  IF \E j \in 1..Len(acc) : acc[j].key = key
        THEN [j \in 1..Len(acc) |->
                 IF acc[j].key = key
                 THEN [key |-> key, g |-> MergeInto(acc[j].g, o)]
                 ELSE acc[j]]
        ELSE Append(acc, [key |-> key, g |-> NewGroup(o)])

\* The dict "groups" after the first i records.
RECURSIVE GroupsAfter(_, _)
GroupsAfter(outliers, i) ==
    IF i = 0 THEN <<>>
    ELSE GroupRecord(GroupsAfter(outliers, i - 1), outliers[i])

\* sorted(groups.values(), key=deviation, reverse=True)
SortedGroups(acc) == SortedByDeviation([j \in 1..Len(acc) |-> acc[j].g])

group_outliers(outliers) == SortedGroups(GroupsAfter(outliers, Len(outliers)))


\* ------------------------------------------------------ storage statements

IdSet(ids) == {ids[i] : i \in 1..Len(ids)}

\* Mutant: the UPDATE without its WHERE clause.
UpdateState_NoWhere(store, ids, text) ==
    [id \in DOMAIN store |-> [store[id] EXCEPT !.state = text]]

\* UPDATE states SET state = text WHERE state_id IN (ids)
UpdateState(store, ids, text) ==
    [id \in DOMAIN store |->
        IF id \in IdSet(ids) THEN [store[id] EXCEPT !.state = text] ELSE store[id]]

\* cursor.rowcount after the UPDATE: the connection is opened without the
\* FOUND_ROWS client flag, so the server counts the rows the statement
\* changed, not the rows its WHERE clause matched.
UpdateStateRowcount(store, ids, text) ==
    Cardinality({id \in DOMAIN store \cap IdSet(ids) : store[id].state # text})

\* Mutant: the back-references are left as they are.
NullOldStateIds_Skipped(store, ids) == store

\* UPDATE states SET old_state_id = NULL WHERE old_state_id IN (ids)
NullOldStateIds(store, ids) ==
    [id \in DOMAIN store |->
        IF store[id].old_state_id \in IdSet(ids)
        THEN [store[id] EXCEPT !.old_state_id = NULL]
        ELSE store[id]]

\* DELETE FROM states WHERE state_id IN (ids)
DeleteStates(store, ids) == [id \in DOMAIN store \ IdSet(ids) |-> store[id]]

DeleteStatesRowcount(store, ids) == Cardinality(DOMAIN store \cap IdSet(ids))

\* Mutant: a connection opened with autocommit on.
CommittedAfterStatement_Autocommit(committed, working) == working

\* The committed table after a statement ran inside the open transaction
\* (working is the connection's view after it): get_db_connection() leaves
\* autocommit off, so nothing is published before conn.commit().
CommittedAfterStatement(committed, working) == committed

\* ------------------------------------------------------ operator input

SelectArgs ==
    { <<>>, <<"x">>, <<"0">>, <<"1">>, <<"2">>, <<"3">>, <<"4">>,
      <<"-", "1">>, <<" ", "2">>, <<"1", ".", "5">> }

\* What the operator may type at the review prompt.
BrowseInputs ==
    { <<"n">>, <<"p">>, <<"q">>, <<"N">>, <<" ", "p", " ">>, <<>>, <<"x">>,
      <<"n", "e", "x", "t">> }
    \cup { <<c>> \o arg : c \in {"e", "d", "E"}, arg \in SelectArgs }

\* What the operator may type at "New value ('c' cancel, 'm' mean)".
EditInputs ==
    { <<"c">>, <<"C">>, <<"m">>, <<"4", "3">>, <<" ", "4", "3", ".", "0">>,
      <<"a", "b", "c">>, <<>>, <<"-">> }

\* The most storage faults (failed statements, lost connections, refused
\* connection attempts) injected into one session.
MaxFaults == 2

\* ----------------------------------------------------------------- state

VARIABLES
    pc,             \* where main() stands
    conn,           \* "none", "up", "lost" (dropped, not yet noticed), "closed"
    db,             \* the committed states table
    txn,            \* the table as the session's connection sees it
    all_outliers,   \* main: the group list
    current_page,   \* main
    page,           \* display_outliers
    total_pages,    \* display_outliers
    total_records,  \* display_outliers
    active,         \* display_outliers: len(active)
    choice,         \* the last text read at a prompt, stripped and lowered
    action,         \* main: "e" or "d"
    idx,            \* main: the 0-based index of the selected group
    new_value,      \* edit_outlier
    rowcount,       \* cursor.rowcount
    sent,           \* the storage calls of the mutation under way, in order
    db0,            \* db when the mutation under way was selected
    faults,         \* storage faults injected so far
    ppc,            \* where the scan stands inside its two functions
    records,        \* find_outliers_in_states: its return value
    groups,         \* group_outliers: the dict "groups"
    gi,             \* group_outliers: the records taken by the loop so far
    first_result,   \* the group list an earlier scan of the same data gave
    outlier_rows,           \* find_outliers_in_states: one source's result set
    stats           \* find_outliers_in_states: one source's statistics

\* The locals of the scan, followed step by step by the scan specifications
\* further down; main's session keeps them as they are.
scanVars ==
    << row_order, cand_order, ppc, records, groups, gi, first_result,
       outlier_rows, stats >>

vars ==
    << pc, conn, db, txn, all_outliers, current_page, page, total_pages,
       total_records, active, choice, action, idx, new_value, rowcount,
       sent, db0, faults, scanVars >>

storeVars == << db, txn >>
displayVars == << page, total_pages, total_records, active >>
mutationVars == << action, idx, new_value, rowcount, sent, db0 >>

Terminal == {"done", "exit1", "exit130", "crashed"}

\* The group main() passed to edit_outlier/delete_outlier.
outlier == all_outliers[idx + 1]

CanFault == faults < MaxFaults

\* No earlier scan to compare with.
NoResult == [known |-> FALSE, list |-> <<>>]

Init ==
    /\ pc = "connect"
    /\ conn = "none"
    /\ db = InitialStates
    /\ txn = InitialStates
    /\ all_outliers = <<>>
    /\ current_page = 0
    /\ page = 0
    /\ total_pages = 0
    /\ total_records = 0
    /\ active = 0
    /\ choice = <<>>
    /\ action = ""
    /\ idx = 0
    /\ new_value = 0
    /\ rowcount = 0
    /\ sent = <<>>
    /\ db0 = InitialStates
    /\ faults = 0
    /\ row_order = AscendingSeq(StateIds)
    /\ cand_order = <<1, 2, 3>>
    /\ ppc = "idle"
    /\ records = <<>>
    /\ groups = <<>>
    /\ gi = 0
    /\ first_result = NoResult
    /\ outlier_rows = <<>>
    /\ stats = SourceStats(1)

\* main: conn = connect(), or sys.exit(1) when it raises.
Connect ==
    /\ pc = "connect"
    /\ \/ /\ conn' = "up"
          /\ pc' = "scan"
          /\ UNCHANGED faults
       \/ /\ CanFault
          /\ faults' = faults + 1
          /\ pc' = "exit1"
          /\ UNCHANGED conn
    /\ UNCHANGED << storeVars, all_outliers, current_page, displayVars, choice,
                    mutationVars >>
    /\ UNCHANGED scanVars

\* Mutant: a query that fails for the second candidate ends the scan, and
\* the records collected for the first one are grouped and reviewed.
Scan_KeepsCollected ==
    /\ pc = "scan"
    /\ \/ /\ conn = "up"
          /\ all_outliers' = group_outliers(find_outliers_in_states(txn))
          /\ UNCHANGED faults
       \/ /\ conn = "up"
          /\ CanFault
          /\ faults' = faults + 1
          /\ all_outliers' =
                group_outliers(SortedByDeviation(SourceOutliers(txn, Candidates[1])))
       \/ /\ conn = "lost"
          /\ all_outliers' = <<>>
          /\ UNCHANGED faults
    /\ current_page' = 0
    /\ pc' = "render"
    /\ UNCHANGED << conn, storeVars, displayVars, choice, mutationVars >>
    /\ UNCHANGED scanVars

\* main: the scan; any mysql.connector.Error leaves an empty group list.
Scan ==
    /\ pc = "scan"
    /\ \/ /\ conn = "up"
          /\ all_outliers' = group_outliers(find_outliers_in_states(txn))
          /\ UNCHANGED faults
       \/ /\ conn = "up"
          /\ CanFault
          /\ faults' = faults + 1
          /\ all_outliers' = <<>>
       \/ /\ conn = "lost"
          /\ all_outliers' = <<>>
          /\ UNCHANGED faults
    /\ current_page' = 0
    /\ pc' = "render"
    /\ UNCHANGED << conn, storeVars, displayVars, choice, mutationVars >>
    /\ UNCHANGED scanVars

\* The environment: the connection drops; the server rolls the open
\* transaction back.
ConnectionLost ==
    /\ pc \notin Terminal
    /\ conn = "up"
    /\ CanFault
    /\ faults' = faults + 1
    /\ conn' = "lost"
    /\ txn' = db
    /\ UNCHANGED << pc, db, all_outliers, current_page, displayVars, choice,
                    mutationVars >>
    /\ UNCHANGED scanVars

\* Mutant: removed groups still count as active.
ActiveIndices_All(outliers) == 1..Len(outliers)

ActiveIndices(outliers) == {i \in 1..Len(outliers) : ~outliers[i].removed}

RECURSIVE SumCounts(_, _)
SumCounts(outliers, S) ==
    IF S = {} THEN 0
    ELSE LET i == CHOOSE j \in S : TRUE
         IN  outliers[i].count + SumCounts(outliers, S \ {i})

\* Mutant: the page count is rounded down.
TotalPages_Floor(outliers, page_size) == Len(outliers) \div page_size

TotalPages(outliers, page_size) == (Len(outliers) + page_size - 1) \div page_size

StartPage(start_page, pages) ==
    IF pages > 0 THEN Max(0, Min(start_page, pages - 1)) ELSE 0

\* display_outliers, from its call to the first prompt.  The locals of the
\* call that just returned (edit_outlier, delete_outlier, the previous
\* display_outliers) and main's action, idx and outlier are dead here: they
\* are written again before they are next read, and the model clears them.
Render ==
    /\ pc = "render"
    /\ choice' = <<>>
    /\ action' = ""
    /\ idx' = 0
    /\ new_value' = 0
    /\ rowcount' = 0
    /\ sent' = <<>>
    /\ db0' = db
    /\ active' = Cardinality(ActiveIndices(all_outliers))
    /\ IF ActiveIndices(all_outliers) = {}
       THEN /\ pc' = "close"
            /\ UNCHANGED << page, total_pages, total_records >>
       ELSE /\ total_records' = SumCounts(all_outliers, ActiveIndices(all_outliers))
            /\ total_pages' = TotalPages(all_outliers, PAGE_SIZE)
            /\ page' = StartPage(current_page, TotalPages(all_outliers, PAGE_SIZE))
            /\ pc' = "prompt"
    /\ UNCHANGED << conn, storeVars, all_outliers, current_page, faults >>
    /\ UNCHANGED scanVars


\* Mutant: a group already removed can be selected again.
Selectable_IgnoringRemoved(outliers, num) == 1 <= num /\ num <= Len(outliers)

\* The test that lets "e<num>"/"d<num>" leave display_outliers.
Selectable(outliers, num) ==
    /\ 1 <= num
    /\ num <= Len(outliers)
    /\ ~outliers[num].removed

\* display_outliers: one pass of the prompt loop; on a valid selection it
\* returns to main, which unpacks the result and sets current_page.
Prompt ==
    /\ pc = "prompt"
    /\ \E input \in BrowseInputs :
        LET ch == Lower(Strip(input))
            num == IF ch # <<>> THEN ParseInt(Tail(ch)) ELSE ValueError
        IN  /\ choice' = ch
            /\ IF ch = <<"n">> /\ page < total_pages - 1
               THEN /\ page' = page + 1
                    /\ UNCHANGED << pc, current_page, action, idx, sent, db0 >>
               ELSE IF ch = <<"p">> /\ page > 0
               THEN /\ page' = page - 1
                    /\ UNCHANGED << pc, current_page, action, idx, sent, db0 >>
               ELSE IF ch = <<"q">>
               THEN /\ pc' = "close"
                    /\ UNCHANGED << page, current_page, action, idx, sent, db0 >>
               ELSE IF /\ ch # <<>>
                       /\ ch[1] \in {"e", "d"}
                       /\ num.ok
                       /\ Selectable(all_outliers, num.val)
               THEN /\ action' = ch[1]
                    /\ idx' = num.val - 1
                    /\ current_page' = (num.val - 1) \div PAGE_SIZE
                    /\ pc' = IF ch[1] = "e" THEN "edit_prompt" ELSE "delete_confirm"
                    /\ sent' = <<>>
                    /\ db0' = db
                    /\ UNCHANGED page
               ELSE UNCHANGED << pc, page, current_page, action, idx, sent, db0 >>
    /\ UNCHANGED << conn, storeVars, all_outliers, total_pages, total_records,
                    active, new_value, rowcount, faults >>
    /\ UNCHANGED scanVars

\* edit_outlier up to the storage work: cancel, "m" for the mean, a number,
\* or "Invalid number." and return False.
EditPrompt ==
    /\ pc = "edit_prompt"
    /\ \E input \in EditInputs :
        LET ch == Lower(Strip(input))
            parsed == IF ch = <<"m">> THEN Parsed(outlier.mean) ELSE ParseFloat(ch)
        IN  /\ choice' = ch
            /\ IF ch = <<"c">> \/ ~parsed.ok
               THEN /\ pc' = "render"
                    /\ UNCHANGED new_value
               ELSE /\ new_value' = parsed.val
                    /\ pc' = "cursor"
    /\ UNCHANGED << conn, storeVars, all_outliers, current_page, displayVars,
                    action, idx, rowcount, sent, db0, faults >>
    /\ UNCHANGED scanVars

\* delete_outlier: Confirm.ask("Are you sure?", default=False)
DeleteConfirm ==
    /\ pc = "delete_confirm"
    /\ \E yes \in BOOLEAN :
        pc' = IF yes THEN "cursor" ELSE "render"
    /\ UNCHANGED << conn, storeVars, all_outliers, current_page, displayVars,
                    choice, mutationVars, faults >>
    /\ UNCHANGED scanVars

\* "with conn.cursor() as cursor": outside the try block, so the
\* OperationalError of a connection found dead goes straight to main.
OpenCursor ==
    /\ pc = "cursor"
    /\ pc' = IF conn # "up" THEN "reconnect"
             ELSE IF action = "e" THEN "edit_update" ELSE "delete_unlink"
    /\ UNCHANGED << conn, storeVars, all_outliers, current_page, displayVars,
                    choice, mutationVars, faults >>
    /\ UNCHANGED scanVars

\* An entry of sent: a storage call and whether it returned or raised.
Returned(name) == [call |-> name, ok |-> TRUE]
Raised(name) == [call |-> name, ok |-> FALSE]

\* A statement that raises mysql.connector.Error: on a dead connection
\* always, on a live one when a fault is injected (the server undoes the
\* failed statement).  Control passes to the except clause.
StatementFails(name) ==
    /\ \/ conn # "up" /\ UNCHANGED faults
       \/ conn = "up" /\ CanFault /\ faults' = faults + 1
    /\ sent' = Append(sent, Raised(name))
    /\ pc' = "rollback"
    /\ UNCHANGED << conn, storeVars, all_outliers, current_page, displayVars,
                    choice, action, idx, new_value, rowcount, db0 >>
    /\ UNCHANGED scanVars

\* A statement that succeeds, leaving the connection's view as "after".
StatementRuns(name, after, count, next) ==
    /\ conn = "up"
    /\ txn' = after
    /\ db' = CommittedAfterStatement(db, after)
    /\ rowcount' = count
    /\ sent' = Append(sent, Returned(name))
    /\ pc' = next
    /\ UNCHANGED << conn, all_outliers, current_page, displayVars, choice,
                    action, idx, new_value, db0, faults >>
    /\ UNCHANGED scanVars

\* edit_outlier: cursor.execute("UPDATE states SET state = %s WHERE ...")
EditUpdate ==
    /\ pc = "edit_update"
    /\ \/ StatementRuns("UPDATE state",
                        UpdateState(txn, outlier.ids, PyStr(new_value)),
                        UpdateStateRowcount(txn, outlier.ids, PyStr(new_value)),
                        "commit")
       \/ StatementFails("UPDATE state")

\* delete_outlier: cursor.execute("UPDATE states SET old_state_id = NULL ...")
DeleteUnlink ==
    /\ pc = "delete_unlink"
    /\ \/ StatementRuns("UPDATE old_state_id",
                        NullOldStateIds(txn, outlier.ids),
                        Cardinality({id \in DOMAIN txn :
                                        txn[id].old_state_id \in IdSet(outlier.ids)}),
                        "delete_rows")
       \/ StatementFails("UPDATE old_state_id")

\* delete_outlier: cursor.execute("DELETE FROM states WHERE state_id IN ...")
DeleteRows ==
    /\ pc = "delete_rows"
    /\ \/ StatementRuns("DELETE",
                        DeleteStates(txn, outlier.ids),
                        DeleteStatesRowcount(txn, outlier.ids),
                        "commit")
       \/ StatementFails("DELETE")

\* conn.commit()
Commit ==
    /\ pc = "commit"
    /\ \/ /\ conn = "up"
          /\ db' = txn
          /\ sent' = Append(sent, Returned("COMMIT"))
          /\ pc' = "report"
          /\ UNCHANGED << conn, txn, all_outliers, current_page, displayVars,
                          choice, action, idx, new_value, rowcount, db0,
                          faults >>
       \/ StatementFails("COMMIT")
    /\ UNCHANGED scanVars

\* Mutant: the reviewed group is dropped from the list instead of flagged.
MarkRemoved_Compacting(outliers, i) ==
    SubSeq(outliers, 1, i) \o SubSeq(outliers, i + 2, Len(outliers))

\* main: all_outliers[idx]["_removed"] = True
MarkRemoved(outliers, i) == [outliers EXCEPT ![i + 1].removed = TRUE]

\* After the commit: print cursor.rowcount ("Updated/Deleted n
\* record(s)"), return True, and main sets all_outliers[idx]["_removed"].
Report ==
    /\ pc = "report"
    /\ all_outliers' = MarkRemoved(all_outliers, idx)
    /\ pc' = "render"
    /\ UNCHANGED << conn, storeVars, current_page, displayVars, choice, action,
                    idx, new_value, rowcount, sent, db0, faults >>
    /\ UNCHANGED scanVars

\* The except clause: conn.rollback() and return False.  On a dead
\* connection rollback() raises OperationalError, which leaves the function.
Rollback ==
    /\ pc = "rollback"
    /\ IF conn = "up"
       THEN /\ txn' = db
            /\ sent' = Append(sent, Returned("ROLLBACK"))
            /\ pc' = "render"
       ELSE /\ sent' = Append(sent, Raised("ROLLBACK"))
            /\ pc' = "reconnect"
            /\ UNCHANGED txn
    /\ UNCHANGED << conn, db, all_outliers, current_page, displayVars, choice,
                    action, idx, new_value, rowcount, db0, faults >>
    /\ UNCHANGED scanVars

\* main: except OperationalError: conn = connect().  A connect() that
\* raises here is caught by nothing.
Reconnect ==
    /\ pc = "reconnect"
    /\ \/ /\ conn' = "up"
          /\ txn' = db
          /\ pc' = "render"
          /\ UNCHANGED faults
       \/ /\ CanFault
          /\ faults' = faults + 1
          /\ pc' = "crashed"
          /\ UNCHANGED << conn, txn >>
    /\ UNCHANGED << db, all_outliers, current_page, displayVars, choice,
                    mutationVars >>
    /\ UNCHANGED scanVars

\* main: conn.close() and "Goodbye!"
Close ==
    /\ pc = "close"
    /\ conn' = "closed"
    /\ pc' = "done"
    /\ UNCHANGED << storeVars, all_outliers, current_page, displayVars, choice,
                    mutationVars, faults >>
    /\ UNCHANGED scanVars

\* handle_interrupt: SIGINT at any point after signal.signal() exits the
\* process with status 130; nothing is committed, rolled back or closed.
Interrupt ==
    /\ pc \notin Terminal
    /\ pc' = "exit130"
    /\ UNCHANGED << conn, storeVars, all_outliers, current_page, displayVars,
                    choice, mutationVars, faults >>
    /\ UNCHANGED scanVars

Next ==
    \/ Connect
    \/ Scan
    \/ ConnectionLost
    \/ Render
    \/ Prompt
    \/ EditPrompt
    \/ DeleteConfirm
    \/ OpenCursor
    \/ EditUpdate
    \/ DeleteUnlink
    \/ DeleteRows
    \/ Commit
    \/ Report
    \/ Rollback
    \/ Reconnect
    \/ Close
    \/ Interrupt

Spec == Init /\ [][Next]_vars


\* ------------------------------------------------ the scan, step by step

\* main's call of find_outliers_in_states and group_outliers, followed
\* through the loop of group_outliers, over tables of MaxRows rows read in
\* either order, and run a second time over the same table.

\* Everything of main's state that the scan leaves alone.
sessionVars ==
    << pc, conn, db, txn, current_page, displayVars, choice, mutationVars,
       faults >>

\* The most rows of a scanned table.
MaxRows == 3

\* The rows a scanned table is made of.  For sensor.a (mean 20.0, std 1.0,
\* bounds 15.0 and 25.0): 42.3 and 43.0 (22.3 and 23.0 sigma), 34.7 (14.7),
\* 12.8 and 27.2 (7.2 sigma on either side), 20.0 (inside the bounds); for
\* sensor.b (mean 5.0, std 0.5): 12.0 (14.0 sigma).
ScanRowChoices ==
    { [metadata_id |-> 1, state |-> <<"4", "2", ".", "3">>],
      [metadata_id |-> 1, state |-> <<"4", "3", ".", "0">>],
      [metadata_id |-> 1, state |-> <<"3", "4", ".", "7">>],
      [metadata_id |-> 1, state |-> <<"1", "2", ".", "8">>],
      [metadata_id |-> 1, state |-> <<"2", "7", ".", "2">>],
      [metadata_id |-> 1, state |-> <<"2", "0", ".", "0">>],
      [metadata_id |-> 2, state |-> <<"1", "2", ".", "0">>] }

ScanStores ==
    { [id \in 1..MaxRows |->
          Row(f[id].metadata_id, f[id].state, NULL, 10 * id)] :
      f \in [1..MaxRows -> ScanRowChoices] }

DescendingSeq(n) == [i \in 1..n |-> n + 1 - i]

\* The orders the engine may read the rows in.
RowOrders == {AscendingSeq(1..MaxRows), DescendingSeq(MaxRows)}

\* The orders the candidate query may answer in.
CandOrders == {<<1, 2, 3>>, <<3, 2, 1>>}

ScanInit ==
    /\ pc = "scan"
    /\ conn = "up"
    /\ db \in ScanStores
    /\ txn = db
    /\ all_outliers = <<>>
    /\ current_page = 0
    /\ page = 0
    /\ total_pages = 0
    /\ total_records = 0
    /\ active = 0
    /\ choice = <<>>
    /\ action = ""
    /\ idx = 0
    /\ new_value = 0
    /\ rowcount = 0
    /\ sent = <<>>
    /\ db0 = db
    /\ faults = 0
    /\ row_order \in RowOrders
    /\ cand_order \in CandOrders
    /\ ppc = "extract"
    /\ records = <<>>
    /\ groups = <<>>
    /\ gi = 0
    /\ first_result = NoResult
    /\ outlier_rows = <<>>
    /\ stats = SourceStats(1)

\* main: all_outliers = find_outliers_in_states(conn)
Extract ==
    /\ ppc = "extract"
    /\ records' = find_outliers_in_states(txn)
    /\ groups' = <<>>
    /\ gi' = 0
    /\ ppc' = "group"
    /\ UNCHANGED << sessionVars, all_outliers, row_order, cand_order,
                    first_result, outlier_rows, stats >>

\* group_outliers: one iteration of "for o in outliers"
GroupNext ==
    /\ ppc = "group"
    /\ gi < Len(records)
    /\ groups' = GroupRecord(groups, records[gi + 1])
    /\ gi' = gi + 1
    /\ UNCHANGED << sessionVars, all_outliers, row_order, cand_order, ppc,
                    records, first_result, outlier_rows, stats >>

\* group_outliers: the return, and main's all_outliers = group_outliers(...)
ReturnGroups ==
    /\ ppc = "group"
    /\ gi = Len(records)
    /\ all_outliers' = SortedGroups(groups)
    /\ ppc' = "returned"
    /\ UNCHANGED << sessionVars, row_order, cand_order, records, groups, gi,
                    first_result, outlier_rows, stats >>

\* The one statement of the review session that writes to the group list:
\* main's all_outliers[idx]["_removed"] = True, for a group still active.
MarkReviewed ==
    /\ ppc = "returned"
    /\ \E i \in ActiveIndices(all_outliers) :
          all_outliers' = MarkRemoved(all_outliers, i - 1)
    /\ UNCHANGED << sessionVars, scanVars >>

\* The program is started again on the same table; the engine may answer
\* the queries in another order.
ScanAgain ==
    /\ ppc = "returned"
    /\ ~first_result.known
    /\ \A i \in 1..Len(all_outliers) : ~all_outliers[i].removed
    /\ first_result' = [known |-> TRUE, list |-> all_outliers]
    /\ row_order' \in RowOrders
    /\ cand_order' \in CandOrders
    /\ all_outliers' = <<>>
    /\ records' = <<>>
    /\ groups' = <<>>
    /\ gi' = 0
    /\ ppc' = "extract"
    /\ UNCHANGED << sessionVars, outlier_rows, stats >>

ScanNext ==
    \/ Extract
    \/ GroupNext
    \/ ReturnGroups
    \/ MarkReviewed
    \/ ScanAgain

ScanSpec == ScanInit /\ [][ScanNext]_vars

\* ------------------------------------------------- the frequency filter

\* find_outliers_in_states from the answer of one source's outlier query
\* to the records appended for it, over result sets in which up to
\* MaxOccurrences rows carry the same value.

MaxOccurrences == 11

\* total_samples of the source
SampleCounts == {300, 1000}

\* n rows of the value v, with the ids after "after".
Copies(n, v, after) ==
    [i \in 1..n |-> [state_id |-> after + i, numeric_value |-> v,
                     last_updated_ts |-> 10 * (after + i)]]

\* Result sets of sensor.a: 123456.1 and 123456.2, which both format as
\* "123456", and 42.3.
ResultSets ==
    { Copies(n1, 1234561, 0) \o Copies(n2, 1234562, n1)
          \o Copies(n3, 423, n1 + n2) :
      n1 \in 0..MaxOccurrences, n2 \in 0..2, n3 \in 0..MaxOccurrences }

FilterInit ==
    /\ pc = "scan"
    /\ conn = "up"
    /\ db = InitialStates
    /\ txn = InitialStates
    /\ all_outliers = <<>>
    /\ current_page = 0
    /\ page = 0
    /\ total_pages = 0
    /\ total_records = 0
    /\ active = 0
    /\ choice = <<>>
    /\ action = ""
    /\ idx = 0
    /\ new_value = 0
    /\ rowcount = 0
    /\ sent = <<>>
    /\ db0 = InitialStates
    /\ faults = 0
    /\ row_order = AscendingSeq(StateIds)
    /\ cand_order = <<1, 2, 3>>
    /\ ppc = "filter"
    /\ records = <<>>
    /\ groups = <<>>
    /\ gi = 0
    /\ first_result = NoResult
    /\ outlier_rows \in ResultSets
    /\ stats \in { [cnt |-> c, mean_val |-> 200, std_val |-> 10] :
                   c \in SampleCounts }

\* The Counter over the result set and the loop that appends the records
\* the filter lets through.
FilterRows ==
    /\ ppc = "filter"
    /\ records' = KeptRows(outlier_rows, 1, StatesMeta[1], stats)
    /\ ppc' = "filtered"
    /\ UNCHANGED << sessionVars, all_outliers, row_order, cand_order, groups,
                    gi, first_result, outlier_rows, stats >>

FilterNext == FilterRows

FilterSpec == FilterInit /\ [][FilterNext]_vars


\* ---------------------------------------------------------------- claims

Last(q) == q[Len(q)]

\* The mutation under way (or just finished) was committed.
Committed == sent # <<>> /\ Last(sent) = Returned("COMMIT")

\* A step of the program itself moved pc from "from" (not the interrupt,
\* not the environment dropping the connection).
Leaves(from) == pc = from /\ pc' # pc /\ pc' # "exit130"

\* C1 -- Removal stability: after the scan the group list changes only when
\* a committed edit or delete is reported, and then only by the selected
\* group's removed flag going from false to true (same length, same order,
\* every other group untouched, no flag ever reset); the render that follows
\* shows one active group less and the group's count fewer active records.
C1_RemovalStability ==
    [][ pc \notin {"connect", "scan"} =>
          /\ all_outliers' # all_outliers =>
                /\ pc = "report"
                /\ Committed
                /\ ~all_outliers[idx + 1].removed
                /\ Len(all_outliers') = Len(all_outliers)
                /\ \A i \in 1..Len(all_outliers) :
                      IF i = idx + 1
                      THEN all_outliers'[i] = [all_outliers[i] EXCEPT !.removed = TRUE]
                      ELSE all_outliers'[i] = all_outliers[i]
          /\ Leaves("report") => all_outliers'[idx + 1].removed
          /\ \A i \in 1..Len(all_outliers) :
                all_outliers[i].removed =>
                    i <= Len(all_outliers') /\ all_outliers'[i].removed
          /\ (Leaves("render") /\ Committed) =>
                /\ active' = active - 1
                /\ pc' = "prompt" =>
                      total_records' = total_records - all_outliers[idx + 1].count
      ]_vars

\* The first group (two member records) was deleted or edited and the next
\* render shows the two remaining groups with one record each.
C1_Witness ==
    /\ pc = "prompt"
    /\ all_outliers[1].removed
    /\ ~all_outliers[2].removed
    /\ active = 2
    /\ total_records = 2

\* The text names a group that may be edited or deleted: "e" or "d", then
\* an integer n with 1 <= n <= number of groups and group n not removed.
ValidSelection(ch) ==
    /\ ch # <<>>
    /\ ch[1] \in {"e", "d"}
    /\ ParseInt(Tail(ch)).ok
    /\ ParseInt(Tail(ch)).val \in 1..Len(all_outliers)
    /\ ~all_outliers[ParseInt(Tail(ch)).val].removed

\* A step of the prompt loop (it reads a line into choice).
PromptStep == pc = "prompt" /\ conn' = conn /\ pc' # "exit130"

\* C2 -- Selection validation: a command leaves Browsing for the Mutation
\* Engine only when it is "e"/"d" followed by an integer n in range whose
\* group is not removed (and then index n-1 is what is handed over); any
\* other input except next/prev/quit leaves the session in Browsing with
\* the page, the group list and the store unchanged.
C2_SelectionValidation ==
    [][ PromptStep =>
          /\ pc' \in {"prompt", "close", "edit_prompt", "delete_confirm"}
          /\ pc' \in {"edit_prompt", "delete_confirm"} =>
                /\ ValidSelection(choice')
                /\ idx' = ParseInt(Tail(choice')).val - 1
                /\ action' = choice'[1]
                /\ pc' = (IF action' = "e" THEN "edit_prompt" ELSE "delete_confirm")
          /\ (~ValidSelection(choice') /\ choice' \notin {<<"n">>, <<"p">>, <<"q">>}) =>
                /\ pc' = "prompt"
                /\ UNCHANGED << page, current_page, all_outliers, db, txn >>
      ]_vars

\* The operator asked to delete group 1 after it had been removed, and the
\* session is still at the prompt.
C2_Witness ==
    /\ pc = "prompt"
    /\ choice = <<"d", "1">>
    /\ all_outliers[1].removed

\* A statement or the commit of the mutation under way raised.
StatementRaised ==
    \E i \in 1..Len(sent) : ~sent[i].ok /\ sent[i].call # "ROLLBACK"

\* C3 -- MutationError: once a statement or the commit of an edit or delete
\* has raised (control is in the except clause, or in main's
\* OperationalError handler after it), the next step of the program leaves
\* the store as it was before the mutation, leaves the group's removed flag
\* unset and goes back to Browsing (possibly through the reconnect
\* handler), never out of the session.
C3_MutationError ==
    [][ ((Leaves("rollback") \/ Leaves("reconnect")) /\ StatementRaised) =>
          /\ pc' \in {"render", "reconnect"}
          /\ db' = db0
          /\ pc' = "render" => txn' = db0
          /\ ~all_outliers'[idx + 1].removed
      ]_vars

\* Every old_state_id in the store is NULL or the id of a stored row.
ReferentialIntegrity(store) ==
    \A id \in DOMAIN store :
        store[id].old_state_id # NULL => store[id].old_state_id \in DOMAIN store

\* C4 -- Delete referential integrity: inside a delete the back-references
\* to the members are cleared before the members go (the connection's view
\* before the DELETE is the store with exactly those references cleared);
\* the committed store changes in one step, to the store with the
\* references cleared and the members deleted; and no committed state holds
\* a back-reference to a row that is gone.
C4_DeleteIntegrity ==
    /\ [](ReferentialIntegrity(db))
    /\ []((pc = "delete_rows" /\ conn = "up") =>
              /\ txn = NullOldStateIds(db0, outlier.ids)
              /\ db = db0)
    /\ [][ (action = "d" /\ db' # db) =>
              /\ sent = << Returned("UPDATE old_state_id"), Returned("DELETE") >>
              /\ db' = DeleteStates(NullOldStateIds(db, outlier.ids), outlier.ids)
         ]_vars

\* The first group (rows 1 and 2) was deleted and committed: the rows are
\* gone and row 5, which pointed at row 2, points nowhere.
C4_Witness ==
    /\ pc = "report"
    /\ action = "d"
    /\ DOMAIN db = StateIds \ {1, 2}
    /\ db[5].old_state_id = NULL
    /\ InitialStates[5].old_state_id = 2

\* C5 -- Resilience: when main's OperationalError handler has reconnected,
\* the session goes back to Browsing on a fresh connection, at the page
\* that was displayed when the command was entered, with the group list
\* (and so every removed flag) as it was.
C5_Resilience ==
    [][ (pc = "reconnect" /\ pc' = "render") =>
          /\ conn' = "up"
          /\ all_outliers' = all_outliers
          /\ current_page' = page
      ]_vars

\* C6 -- Only the initial connection attempt may end the process
\* abnormally: every step into an abnormal end (sys.exit(1) or an uncaught
\* exception) is the failure of the first connect().
C6_OnlyStartupFailureTerminates ==
    [][ (pc' \in {"exit1", "crashed"} /\ pc' # pc) => pc = "connect" ]_vars

\* What the mutation under way writes when it runs to its commit.
FullEffect ==
    IF action = "e" THEN UpdateState(db0, outlier.ids, PyStr(new_value))
    ELSE IF action = "d"
         THEN DeleteStates(NullOldStateIds(db0, outlier.ids), outlier.ids)
         ELSE db0

\* C7 -- All-or-nothing: at every point of a mutation, and so wherever an
\* interrupt or a crash ends the process, the committed store holds either
\* none of the mutation's writes or all of them.
C7_AllOrNothing == db = db0 \/ db = FullEffect

\* The interrupt ended the process between the back-reference UPDATE and
\* the DELETE, with the UPDATE's change pending in the transaction.
C7_Witness ==
    /\ pc = "exit130"
    /\ sent = << Returned("UPDATE old_state_id") >>
    /\ txn # db
    /\ db = InitialStates

\* A statement of the mutation was issued and neither commit() nor
\* rollback() has returned.
TransactionOpen ==
    /\ conn = "up"
    /\ sent # <<>>
    /\ Last(sent) \notin {Returned("COMMIT"), Returned("ROLLBACK")}

\* C8 -- An interrupt never takes effect while the transaction of a
\* mutation is open, and after an interrupt no further step is taken.
C8_InterruptDeferred ==
    [][ /\ pc # "exit130"
        /\ pc' = "exit130" => ~TransactionOpen
      ]_vars

\* C9 -- Operator abort: declining the confirmation, cancelling the edit or
\* typing a non-number sends nothing to the store and leaves the flags, the
\* store and the page as they were when the command was entered.
C9_AbortNoChange ==
    [][ (pc \in {"edit_prompt", "delete_confirm"} /\ pc' = "render") =>
          /\ sent' = <<>>
          /\ UNCHANGED << db, txn, all_outliers >>
          /\ current_page' = page
      ]_vars

\* The committed store is the store from before the edit with every member
\* row holding the new value and nothing else changed.
EditedExactly ==
    /\ DOMAIN db = DOMAIN db0
    /\ \A id \in DOMAIN db :
          IF id \in IdSet(outlier.ids)
          THEN /\ NumericValue(db[id]) = new_value
               /\ db[id] = [db0[id] EXCEPT !.state = db[id].state]
          ELSE db[id] = db0[id]

SuccessfulEdit == pc = "report" /\ action = "e" /\ Committed

\* C10 as stated -- a successful edit leaves exactly the member rows holding
\* the new value and reports len(ids) affected rows.
C10_ReportsMemberCount ==
    SuccessfulEdit => (EditedExactly /\ rowcount = Len(outlier.ids))

\* C10 -- Edit correctness: a successful edit leaves exactly the member rows
\* holding the new value, and reports the number of member rows whose
\* stored text differed from str(new_value) before the edit.
C10_EditCorrectness ==
    SuccessfulEdit =>
        /\ EditedExactly
        /\ rowcount = Cardinality({id \in IdSet(outlier.ids) :
                                      db0[id].state # PyStr(new_value)})
        /\ rowcount <= Len(outlier.ids)

\* The first group was set to its mean: both member rows changed.
C10_Witness ==
    /\ SuccessfulEdit
    /\ choice = <<"m">>
    /\ outlier.ids = <<2, 1>>
    /\ rowcount = 2
    /\ db[1].state = <<"2", "0", ".", "0">>
    /\ db[2].state = <<"2", "0", ".", "0">>


\* The (source, band, direction) key of a group, from its representative
\* fields.
KeyOf(g) == GroupKey(g)

\* How many member lists of the groups gs hold the id, counting repeats.
Holders(gs, id) ==
    Cardinality({jm \in (1..Len(gs)) \X (1..MaxRows) :
                    /\ jm[2] <= Len(gs[jm[1]].ids)
                    /\ gs[jm[1]].ids[jm[2]] = id})

\* The groups held by the dict so far.
DictGroups == [j \in 1..Len(groups) |-> groups[j].g]

Partition(gs, n) ==
    /\ \A k \in 1..n : Holders(gs, records[k].id) = 1
    /\ \A j \in 1..Len(gs) :
          /\ gs[j].ids # <<>>
          /\ \A m \in 1..Len(gs[j].ids) :
                \E k \in 1..n : records[k].id = gs[j].ids[m]
    /\ \A i, j \in 1..Len(gs) : i # j => KeyOf(gs[i]) # KeyOf(gs[j])

\* C11 -- Grouping is a partition: after every iteration of the grouping
\* loop, and in the list it returns, the id of each record taken so far is
\* in the member list of exactly one group (once), every member is such a
\* record, no group is empty and no two groups have the same
\* (source, band, direction) key.
C11_GroupingPartition ==
    /\ ppc = "group" => Partition(DictGroups, gi)
    /\ ppc = "returned" => Partition(all_outliers, Len(records))

\* Three records were grouped into two groups, one of them with two members.
C11_Witness ==
    /\ ppc = "returned"
    /\ Len(records) = 3
    /\ Len(all_outliers) = 2
    /\ \E i \in 1..2 : all_outliers[i].count = 2


Shape(g) ==
    /\ g.count >= 1
    /\ g.count = Len(g.ids)
    /\ Len(g.ids) = Len(g.timestamps)
    /\ Len(g.timestamps) = Len(g.values)
    /\ \E m \in 1..Len(g.values) : g.values[m] = g.min_value
    /\ \A m \in 1..Len(g.values) : g.min_value <= g.values[m]
    /\ \E m \in 1..Len(g.values) : g.values[m] = g.max_value
    /\ \A m \in 1..Len(g.values) : g.values[m] <= g.max_value

ShapeFields(g) ==
    << g.count, g.ids, g.timestamps, g.values, g.min_value, g.max_value >>

\* C12 -- Group shape: after every insertion or merge of the grouping loop,
\* and in the returned list, each group's count is the length of its ids,
\* timestamps and values lists, and its min_value and max_value are the
\* smallest and largest of its values; the review session's write to the
\* list (the removed flag) changes none of these fields.
C12_GroupShape ==
    /\ [](/\ ppc = "group" => \A j \in 1..Len(groups) : Shape(groups[j].g)
          /\ ppc = "returned" =>
                \A i \in 1..Len(all_outliers) : Shape(all_outliers[i]))
    /\ [][ (ppc = "returned" /\ ppc' = "returned") =>
              /\ Len(all_outliers') = Len(all_outliers)
              /\ \A i \in 1..Len(all_outliers) :
                    ShapeFields(all_outliers'[i]) = ShapeFields(all_outliers[i])
         ]_vars

\* A group of two members with different values has been marked removed.
C12_Witness ==
    /\ ppc = "returned"
    /\ \E i \in 1..Len(all_outliers) :
          /\ all_outliers[i].removed
          /\ all_outliers[i].count = 2
          /\ all_outliers[i].min_value < all_outliers[i].max_value

\* The band width for a deviation (in tenths).
Width(dev) ==
    CASE dev < 100 -> 1
      [] dev >= 100 /\ dev < 200 -> 2
      [] dev >= 200 -> 5

\* floor(dev / w) * w: the multiple b of w with b <= dev < b + w.
FloorBand(dev) ==
    CHOOSE b \in 0..(dev \div 10) :
        /\ b % Width(dev) = 0
        /\ 10 * b <= dev
        /\ dev < 10 * (b + Width(dev))

\* The key of the dict entry that holds the k-th record.
KeyHolding(k) ==
    LET j == CHOOSE j \in 1..Len(groups) :
                 \E m \in 1..Len(groups[j].g.ids) :
                     groups[j].g.ids[m] = records[k].id
    IN  groups[j].key

\* C13 -- Band and key assignment: a record with deviation dev goes under
\* the key (source, band, direction), where band = floor(dev / w) * w for
\* w = 1 below 10, 2 from 10 to below 20 and 5 from 20 on, and direction is
\* "above" when the value is greater than the mean, else "below".
\* Deviations 7.2, 14.7 and 23.0 give bands 7, 14 and 20; the value 42.3 of
\* a source with mean 20.0 and deviation 1.0 has deviation 22.3 and the key
\* (source, 20, above).
C13_BandAndKey ==
    ppc \in {"group", "returned"} =>
        \A k \in 1..gi :
            LET o == records[k]
                key == KeyHolding(k)
            IN  /\ key = << o.entity_id, FloorBand(o.deviation),
                            IF o.value > o.mean THEN "above" ELSE "below" >>
                /\ o.deviation = 72 => key[2] = 7
                /\ o.deviation = 147 => key[2] = 14
                /\ o.deviation = 230 => key[2] = 20
                /\ (o.value = 423 /\ o.mean = 200 /\ o.upper_bound = 250) =>
                      /\ o.deviation = 223
                      /\ key = << o.entity_id, 20, "above" >>

\* Records of 7.2, 14.7 and 22.3 sigma (the value 42.3) have been grouped.
C13_Witness ==
    /\ ppc = "returned"
    /\ \E k \in 1..Len(records) : records[k].deviation = 72
    /\ \E k \in 1..Len(records) : records[k].deviation = 147
    /\ \E k \in 1..Len(records) : records[k].value = 423

\* How many rows of the result set format to the same six significant
\* digits as its i-th row.
SameQuantized(i) ==
    Cardinality({j \in 1..Len(outlier_rows) :
                    Quantize6g(outlier_rows[j].numeric_value)
                        = Quantize6g(outlier_rows[i].numeric_value)})

Retained(i) ==
    \E k \in 1..Len(records) : records[k].id = outlier_rows[i].state_id

\* C14 -- Frequency filter: a row of a source's result set is discarded
\* exactly when the number of rows of that result set with its quantized
\* value is strictly greater than total_samples x 0.01; with 1000 samples a
\* value occurring 11 times is excluded and one occurring 9 (or 10) times is
\* retained; rows with the same quantized value are kept or discarded
\* together, and each row kept yields one record.
C14_FrequencyFilter ==
    ppc = "filtered" =>
        /\ \A i \in 1..Len(outlier_rows) :
              /\ ~Retained(i) <=> SameQuantized(i) * 100 > stats.cnt
              /\ (stats.cnt = 1000 /\ SameQuantized(i) = 11) => ~Retained(i)
              /\ (stats.cnt = 1000 /\ SameQuantized(i) \in {9, 10}) => Retained(i)
              /\ \A j \in 1..Len(outlier_rows) :
                    Quantize6g(outlier_rows[j].numeric_value)
                        = Quantize6g(outlier_rows[i].numeric_value)
                    => (Retained(i) <=> Retained(j))
        /\ \A k, l \in 1..Len(records) :
              records[k].id = records[l].id => k = l

\* Of 1000 samples, 42.3 occurs 11 times and is excluded; 123456.1 (seven
\* times) and 123456.2 (twice) share "123456" and are retained.
C14_Witness ==
    /\ ppc = "filtered"
    /\ stats.cnt = 1000
    /\ Len(outlier_rows) = 20
    /\ Len(records) = 9
    /\ \E i \in 1..Len(outlier_rows) :
          /\ outlier_rows[i].numeric_value = 423
          /\ SameQuantized(i) = 11
          /\ ~Retained(i)
    /\ \E i, j \in 1..Len(outlier_rows) :
          /\ outlier_rows[i].numeric_value = 1234561
          /\ outlier_rows[j].numeric_value = 1234562
          /\ Retained(i) /\ Retained(j)


SameRepresentative(g, h) ==
    /\ g.deviation = h.deviation
    /\ g.mean = h.mean
    /\ g.lower_bound = h.lower_bound
    /\ g.upper_bound = h.upper_bound
    /\ g.total_samples = h.total_samples

SameGroup(g, h) ==
    /\ KeyOf(g) = KeyOf(h)
    /\ SameRepresentative(g, h)
    /\ IdSet(g.ids) = IdSet(h.ids)

\* C15 -- Pipeline idempotence: a second scan of the same, unchanged table
\* returns the group list of the first one, group by group in the same
\* positions (same key, same representative deviation, mean, bounds and
\* total_samples, same set of member ids), whatever order the engine
\* answers the candidate and outlier queries in, ties in deviation included.
C15_PipelineIdempotence ==
    (ppc = "returned" /\ first_result.known) =>
        /\ Len(all_outliers) = Len(first_result.list)
        /\ \A i \in 1..Len(all_outliers) :
              SameGroup(all_outliers[i], first_result.list[i])


\* C16 -- Guaranteed release on termination: on every path by which the
\* process ends after the connection was established (quit, all groups
\* removed, operator interrupt, failed reconnect) the connection has been
\* closed before the process exits.
C16_ReleasedBeforeExit ==
    (pc \in Terminal /\ conn # "none") => conn = "closed"

\* ceil(len(outliers) / PAGE_SIZE): the least k with k * PAGE_SIZE >= len.
CeilPages ==
    CHOOSE k \in 0..Len(all_outliers) :
        /\ k * PAGE_SIZE >= Len(all_outliers)
        /\ (k - 1) * PAGE_SIZE < Len(all_outliers)

\* C17 -- Page cursor bound: at every prompt 0 <= page <= total_pages - 1,
\* with total_pages = ceil(number of groups / page size) over all groups,
\* removed ones included; "n" adds exactly 1 to page when page is below
\* total_pages - 1 and "p" takes exactly 1 off when page is above 0;
\* otherwise, and for any other input that stays at the prompt, page is
\* unchanged.
C17_PageCursorBound ==
    /\ [](pc = "prompt" =>
             /\ total_pages = CeilPages
             /\ 0 <= page
             /\ page <= total_pages - 1)
    /\ [][ PromptStep =>
             /\ choice' = <<"n">> =>
                   page' = IF page < total_pages - 1 THEN page + 1 ELSE page
             /\ choice' = <<"p">> =>
                   page' = IF page > 0 THEN page - 1 ELSE page
             /\ choice' \notin {<<"n">>, <<"p">>} => page' = page
             /\ total_pages' = total_pages
         ]_vars

\* With one of the three groups removed there are still two pages, and the
\* operator asked for the next page and is on the last one.
C17_Witness ==
    /\ pc = "prompt"
    /\ \E i \in 1..Len(all_outliers) : all_outliers[i].removed
    /\ choice = <<"n">>
    /\ page = 1
    /\ total_pages = 2

\* The member records of the group g.
Members(g) == {k \in 1..Len(records) : records[k].id \in IdSet(g.ids)}

\* C18 -- Representative member and ordering: the extractor's list is in
\* non-increasing order of deviation, and grouping it gives each group the
\* deviation, mean, bounds and total_samples of the member with the greatest
\* deviation in that group, and returns the groups in non-increasing order
\* of that deviation.
C18_RepresentativeAndOrder ==
    /\ ppc \in {"group", "returned"} =>
          \A k, l \in 1..Len(records) :
              k < l => records[k].deviation >= records[l].deviation
    /\ ppc = "returned" =>
          /\ \A i \in 1..Len(all_outliers) :
                \A k \in Members(all_outliers[i]) :
                    (\A l \in Members(all_outliers[i]) :
                        records[l].deviation <= records[k].deviation)
                    => SameRepresentative(all_outliers[i], records[k])
          /\ \A i, j \in 1..Len(all_outliers) :
                i < j => all_outliers[i].deviation >= all_outliers[j].deviation

\* Two groups of different deviation were returned, the first with two
\* members of different deviation.
C18_Witness ==
    /\ ppc = "returned"
    /\ Len(all_outliers) = 2
    /\ all_outliers[1].deviation > all_outliers[2].deviation
    /\ \E k, l \in Members(all_outliers[1]) :
          records[k].deviation > records[l].deviation

\* The scan ended on an error of the storage.
ScanFails == pc = "scan" /\ pc' = "render" /\ (faults' # faults \/ conn # "up")

\* C19 -- Scan abort: a query that fails during the scan leaves main with an
\* empty group list, whatever had been collected; with an empty list the
\* session goes from the first render straight to the close: no command is
\* read, no storage call of a mutation is made and the store is unchanged.
C19_ScanAbort ==
    /\ [][ ScanFails => all_outliers' = <<>> ]_vars
    /\ []((pc \notin {"connect", "scan", "exit1"} /\ all_outliers = <<>>) =>
             /\ pc \in {"render", "close", "done", "exit130"}
             /\ choice = <<>>
             /\ sent = <<>>
             /\ db = InitialStates)
    /\ [][ (all_outliers = <<>> /\ Leaves("render")) => pc' = "close" ]_vars

\* A statistics or outlier query failed and the session has ended.
C19_Witness ==
    /\ pc = "done"
    /\ conn = "closed"
    /\ faults = 1
    /\ all_outliers = <<>>

\* Where main stands between a selection and the end of its handling.
MutationPcs ==
    {"edit_prompt", "delete_confirm", "cursor", "edit_update",
     "delete_unlink", "delete_rows", "commit", "report", "rollback",
     "reconnect"}

AllRemoved ==
    all_outliers # <<>> /\ \A i \in 1..Len(all_outliers) : all_outliers[i].removed

\* The mutations committed so far: one per removed flag, and the one just
\* committed whose flag main is about to set.
CommittedMutations ==
    Cardinality({i \in 1..Len(all_outliers) : all_outliers[i].removed})
        + (IF pc = "report" THEN 1 ELSE 0)

Committing == pc = "commit" /\ pc' = "report"

\* C20 -- Each group is mutated at most once and the session ends by
\* itself: the group handed to edit_outlier/delete_outlier is never a
\* removed one; the store changes only in a commit, every commit is counted
\* once, and the count never exceeds the number of groups; once every group
\* is removed the next render leaves the review loop without a prompt, and
\* main closes the connection and ends.
C20_MutatedAtMostOnce ==
    /\ [](/\ pc \in MutationPcs => ~all_outliers[idx + 1].removed
          /\ CommittedMutations <= Len(all_outliers)
          /\ pc = "prompt" => ~AllRemoved)
    /\ [][ /\ db' # db => Committing
           /\ Committing => CommittedMutations' = CommittedMutations + 1
           /\ (~Committing /\ pc' # "exit130") =>
                 CommittedMutations' = CommittedMutations
           /\ (AllRemoved /\ Leaves("render")) => pc' = "close"
           /\ Leaves("close") => (pc' = "done" /\ conn' = "closed")
         ]_vars

\* All three groups were mutated and the session closed the connection and
\* ended.
C20_Witness ==
    /\ pc = "done"
    /\ conn = "closed"
    /\ Len(all_outliers) = 3
    /\ AllRemoved

=============================================================================
